---- MODULE Spec2Model ----
(***************************************************************************)
(* Model of src/src/iter.rs: the FallibleIterator trait (some_next,        *)
(* seek_next) and the three adapters built by fuse_err, fuse_err_on and    *)
(* fuse_err_when (FuseIterAlways, FuseIterVariant, FuseIterClosure).       *)
(*                                                                         *)
(* A stepper is a scripted source: it hands out the entries of `script`    *)
(* in order and, once the script is used up, the outcome `tail` on every   *)
(* further poll (test::A is the empty script with tail Some(Ok(()));       *)
(* an exhausted Iterator<Item = Result<T, E>> has tail None).              *)
(*                                                                         *)
(* Each adapter instance i owns its stepper inner[i].  One step of the     *)
(* model is one iteration of the `loop` of a next() call: one some_next()  *)
(* call and the match on its outcome.  polls and log are observers: they   *)
(* count the some_next() calls and record what the first MaxCalls next()   *)
(* calls returned; they saturate instead of blocking the program.          *)
(* invoked records the arguments the closure of a FuseIterClosure was      *)
(* called with.                                                            *)
(*                                                                         *)
(* src/src/some.rs is modelled beside it (GlueSpec): a function whose body *)
(* starts with take!(e), as test can_early_return does, in fn; and a       *)
(* some_into() call over a SomeFrom implementation, in conv.               *)
(***************************************************************************)
EXTENDS Integers, Sequences, FiniteSets

\* ---- bounds of the model ----
MaxLen == 2
MaxPolls == 7
MaxCalls == 4
MaxItem == 3
MaxU == 1

Inst == {1, 2}
Errors == {"X", "Y"}
Values == {1, 2}

Min(a, b) == IF a < b THEN a ELSE b

\* ---- outcomes of some_next(), as the adapters match them ----
\* Some(Ok(t)), Some(Err(e)) and None of iter.rs:27-29. (The trait declares
\* Result<Option<_>, _> at iter.rs:19; the three loops match Option<Result<_, _>>,
\* and it is the loops that are modelled.)
Produced(v) == [tag |-> "Produced", val |-> v, err |-> "-"]
Failed(e) == [tag |-> "Failed", val |-> 0, err |-> e]
Empty == [tag |-> "Empty", val |-> 0, err |-> "-"]
NoOutcome == [tag |-> "NoOutcome", val |-> 0, err |-> "-"]

IsProduced(o) == o.tag = "Produced"
IsFailed(o) == o.tag = "Failed"

\* ---- results of next(): Option<Item> ----
Some(v) == [tag |-> "Some", val |-> v]
None == [tag |-> "None", val |-> 0]
NoRet == [tag |-> "NoRet", val |-> 0]
\* the match arm that falls through to the next iteration of the loop
Continue == [tag |-> "Continue", val |-> 0]

Alphabet == {Produced(v) : v \in Values} \cup {Failed(e) : e \in Errors} \cup {Empty}
Tails == {Produced(1), Empty} \cup {Failed(e) : e \in Errors}

ScenarioA == <<Produced(1), Empty, Produced(2), Failed("X"), Produced(3)>>
ScenarioD == <<Failed("X"), Failed("X"), Produced(1)>>

Scripts == UNION {[1..n -> Alphabet] : n \in 0..MaxLen} \cup {ScenarioA, ScenarioD}

\* ---- the continuation predicates: Fn(Error) -> bool ----
Conds == [Errors -> BOOLEAN]
NoCond == [e \in Errors |-> FALSE]
NotEq(S) == [e \in Errors |-> e # S]

VARIABLES kind, inner, variant, cond, pc, last, ret, polls, log, invoked, fn, conv

vars == <<kind, inner, variant, cond, pc, last, ret, polls, log, invoked, fn, conv>>

\* the variables of the adapters, and those of some.rs
iterVars == <<kind, inner, variant, cond, pc, last, ret, polls, log, invoked>>
glueVars == <<fn, conv>>

\* ---- some.rs: the function around take!, and the conversion ----
Options == {None} \cup {Some(v) : v \in 0..MaxItem}

\* Default::default() of the enclosing function's return type, the value the
\* body returns when it runs to its end, and no return yet
DefaultValue == [tag |-> "Default", val |-> 0]
Normal(t) == [tag |-> "Normal", val |-> t]
Pending == [tag |-> "Pending", val |-> 0]

\* a function entered with argument e, about to expand take!(e)
Entered(e) == [pc |-> "macro", e |-> e, t |-> NoRet, after |-> 0, result |-> Pending]

\* the implementations of SomeFrom<U> for T: U = 0..MaxU, T = 0..MaxItem
Impls == [0..MaxU -> Options]
ConvIdle(f) == [impl |-> f, u |-> 0, out |-> NoRet, calls |-> 0]

\* ---- the stepper ----
Stepper(s, t) == [script |-> s, tail |-> t, cur |-> 0]

\* the outcome the next some_next() call returns
Outcome(s) == IF s.cur < Len(s.script) THEN s.script[s.cur + 1] ELSE s.tail

\* the stepper after that call
Advance(s) == [s EXCEPT !.cur = IF s.cur < Len(s.script) THEN s.cur + 1 ELSE s.cur]

\* ---- construction ----
Raw == [kind |-> "Seek", variant |-> "-", cond |-> NoCond]
fuse_err == [kind |-> "Always", variant |-> "-", cond |-> NoCond]
fuse_err_on(error) == [kind |-> "Variant", variant |-> error, cond |-> NoCond]
fuse_err_when(f) == [kind |-> "Closure", variant |-> "-", cond |-> f]
Absent == [kind |-> "Absent", variant |-> "-", cond |-> NoCond]

Adapters == {Raw, fuse_err} \cup {fuse_err_on(e) : e \in Errors} \cup {fuse_err_when(f) : f \in Conds}

\* adapter a over stepper x and adapter b over stepper y
BuildOver(a, b, x, y) ==
    /\ kind = [i \in Inst |-> IF i = 1 THEN a.kind ELSE b.kind]
    /\ variant = [i \in Inst |-> IF i = 1 THEN a.variant ELSE b.variant]
    /\ cond = [i \in Inst |-> IF i = 1 THEN a.cond ELSE b.cond]
    /\ inner = [i \in Inst |-> IF i = 1 THEN x ELSE y]
    /\ pc = [i \in Inst |-> "idle"]
    /\ last = [i \in Inst |-> NoOutcome]
    /\ ret = [i \in Inst |-> NoRet]
    /\ polls = [i \in Inst |-> 0]
    /\ log = [i \in Inst |-> <<>>]
    /\ invoked = [i \in Inst |-> <<>>]
    /\ fn = Entered(None)
    /\ conv = ConvIdle([u \in 0..MaxU |-> None])

Build(a, b, s, t) == BuildOver(a, b, Stepper(s, t), Stepper(s, t))

\* two outcomes, two scripts that differ at most in the payloads of Failed
SameTag(o1, o2) == o1.tag = o2.tag /\ o1.val = o2.val
SameShape(s1, s2) == Len(s1) = Len(s2) /\ \A k \in 1..Len(s1) : SameTag(s1[k], s2[k])

\* script s with the payload of every Failed entry replaced through g
Remap(s, g) == [k \in 1..Len(s) |-> IF IsFailed(s[k]) THEN Failed(g[s[k].err]) ELSE s[k]]

Variations(s) ==
    {x \in Scripts : SameShape(s, x)} \cup {Remap(s, g) : g \in [Errors -> Errors]}

\* one adapter over one stepper
InitSingle == \E s \in Scripts, t \in Tails, a \in Adapters : Build(a, Absent, s, t)

\* two adapters side by side, each over its own copy of the same stepper
InitPair ==
    \E s \in Scripts, t \in Tails :
        \/ \E S \in Errors : Build(fuse_err_on(S), fuse_err_when(NotEq(S)), s, t)
        \/ Build(Raw, fuse_err, s, t)
        \/ \E s2 \in Variations(s), t2 \in Tails :
               /\ SameTag(t, t2)
               /\ <<s2, t2>> # <<s, t>>
               /\ BuildOver(fuse_err, fuse_err, Stepper(s, t), Stepper(s2, t2))

Init == InitSingle \/ InitPair

\* ---- the match of each loop ----
\* (mutant) None from the stepper ends the call, as the end of an Iterator would
seek_next_match_NoneEnds(o) ==
    CASE o.tag = "Produced" -> Some(o.val)
      [] OTHER -> None

\* (mutant) only the error X ends the call, any other error is skipped
seek_next_match_OnlyX(o) ==
    CASE o.tag = "Produced" -> Some(o.val)
      [] o.tag = "Failed" /\ o.err = "X" -> None
      [] OTHER -> Continue

\* (mutant) an error is skipped like None instead of ending the call
seek_next_match_SkipErr(o) ==
    CASE o.tag = "Produced" -> Some(o.val)
      [] OTHER -> Continue

seek_next_match(o) ==
    CASE o.tag = "Produced" -> Some(o.val)
      [] o.tag = "Failed" -> None
      [] OTHER -> Continue

\* (mutant) the comparison with the sentinel is inverted
FuseIterVariant_match_Inverted(o, v) ==
    CASE o.tag = "Produced" -> Some(o.val)
      [] o.tag = "Failed" /\ o.err # v -> None
      [] OTHER -> Continue

\* (mutant) None from the stepper ends the call like the sentinel does
FuseIterVariant_match_EmptyEnds(o, v) ==
    CASE o.tag = "Produced" -> Some(o.val)
      [] o.tag = "Failed" /\ o.err # v -> Continue
      [] OTHER -> None

\* (mutant) every error ends the call, whatever the sentinel
FuseIterVariant_match_AnyErr(o, v) ==
    CASE o.tag = "Produced" -> Some(o.val)
      [] o.tag = "Failed" -> None
      [] OTHER -> Continue

FuseIterVariant_match(o, v) ==
    CASE o.tag = "Produced" -> Some(o.val)
      [] o.tag = "Failed" /\ o.err = v -> None
      [] OTHER -> Continue

\* (mutant) every error ends the call, whatever the closure returns
FuseIterClosure_match_AnyErr(o, f) ==
    CASE o.tag = "Produced" -> Some(o.val)
      [] o.tag = "Failed" -> None
      [] OTHER -> Continue

\* (mutant) the call ends when the closure returns true
FuseIterClosure_match_NoNegation(o, f) ==
    CASE o.tag = "Produced" -> Some(o.val)
      [] o.tag = "Failed" -> IF f[o.err] THEN None ELSE Continue
      [] OTHER -> Continue

FuseIterClosure_match(o, f) ==
    CASE o.tag = "Produced" -> Some(o.val)
      [] o.tag = "Failed" -> IF ~f[o.err] THEN None ELSE Continue
      [] OTHER -> Continue

\* ---- one iteration of the loop of instance i: poll, then act on arm r ----
Tick(n) == Min(n + 1, MaxPolls)

Record(l, r, n) == IF Len(l) < MaxCalls THEN Append(l, [ret |-> r, at |-> n]) ELSE l

\* (mutant) the adapter keeps the last error it met in its sentinel field
LoopIteration_StoresErr(i, r) ==
    /\ pc[i] = "loop"
    /\ inner' = [inner EXCEPT ![i] = Advance(@)]
    /\ last' = [last EXCEPT ![i] = Outcome(inner[i])]
    /\ polls' = [polls EXCEPT ![i] = Tick(@)]
    /\ IF r = Continue
       THEN UNCHANGED <<pc, ret, log>>
       ELSE /\ pc' = [pc EXCEPT ![i] = "idle"]
            /\ ret' = [ret EXCEPT ![i] = r]
            /\ log' = [log EXCEPT ![i] = Record(@, r, Tick(polls[i]))]
    /\ variant' = [variant EXCEPT ![i] = IF IsFailed(Outcome(inner[i]))
                                          THEN Outcome(inner[i]).err ELSE @]
    /\ UNCHANGED <<kind, cond>>

\* (mutant) a returning iteration peeks at the entry and leaves it in the stepper
LoopIteration_Peek(i, r) ==
    /\ pc[i] = "loop"
    /\ last' = [last EXCEPT ![i] = Outcome(inner[i])]
    /\ IF r = Continue
       THEN /\ inner' = [inner EXCEPT ![i] = Advance(@)]
            /\ polls' = [polls EXCEPT ![i] = Tick(@)]
            /\ UNCHANGED <<pc, ret, log>>
       ELSE /\ pc' = [pc EXCEPT ![i] = "idle"]
            /\ ret' = [ret EXCEPT ![i] = r]
            /\ log' = [log EXCEPT ![i] = Record(@, r, polls[i])]
            /\ UNCHANGED <<inner, polls>>
    /\ UNCHANGED <<kind, variant, cond>>

\* (mutant) a returning iteration polls the stepper once more before it returns
LoopIteration_Prefetch(i, r) ==
    /\ pc[i] = "loop"
    /\ last' = [last EXCEPT ![i] = Outcome(inner[i])]
    /\ IF r = Continue
       THEN /\ inner' = [inner EXCEPT ![i] = Advance(@)]
            /\ polls' = [polls EXCEPT ![i] = Tick(@)]
            /\ UNCHANGED <<pc, ret, log>>
       ELSE /\ inner' = [inner EXCEPT ![i] = Advance(Advance(@))]
            /\ polls' = [polls EXCEPT ![i] = Tick(Tick(@))]
            /\ pc' = [pc EXCEPT ![i] = "idle"]
            /\ ret' = [ret EXCEPT ![i] = r]
            /\ log' = [log EXCEPT ![i] = Record(@, r, Tick(Tick(polls[i])))]
    /\ UNCHANGED <<kind, variant, cond>>

LoopIteration(i, r) ==
    /\ pc[i] = "loop"
    /\ inner' = [inner EXCEPT ![i] = Advance(@)]
    /\ last' = [last EXCEPT ![i] = Outcome(inner[i])]
    /\ polls' = [polls EXCEPT ![i] = Tick(@)]
    /\ IF r = Continue
       THEN UNCHANGED <<pc, ret, log>>
       ELSE /\ pc' = [pc EXCEPT ![i] = "idle"]
            /\ ret' = [ret EXCEPT ![i] = r]
            /\ log' = [log EXCEPT ![i] = Record(@, r, Tick(polls[i]))]
    /\ UNCHANGED <<kind, variant, cond>>

\* (mutant) a fused adapter: once next() has returned None it is not entered again
Call_Fused(i) ==
    /\ kind[i] # "Absent"
    /\ pc[i] = "idle"
    /\ ret[i] # None
    /\ pc' = [pc EXCEPT ![i] = "loop"]
    /\ last' = [last EXCEPT ![i] = NoOutcome]
    /\ UNCHANGED <<kind, inner, variant, cond, ret, polls, log, invoked, glueVars>>

\* the caller enters next() (or seek_next() on a bare stepper)
Call(i) ==
    /\ kind[i] # "Absent"
    /\ pc[i] = "idle"
    /\ pc' = [pc EXCEPT ![i] = "loop"]
    /\ last' = [last EXCEPT ![i] = NoOutcome]
    /\ UNCHANGED <<kind, inner, variant, cond, ret, polls, log, invoked, glueVars>>

\* (mutant) the call that meets an error polls once more before it returns None
seek_next_PollsPastErr(i) ==
    IF IsFailed(Outcome(inner[i]))
    THEN LoopIteration_Prefetch(i, None)
    ELSE LoopIteration(i, seek_next_match(Outcome(inner[i])))

seek_next(i) == LoopIteration(i, seek_next_match(Outcome(inner[i])))

Seek(i) == kind[i] = "Seek" /\ seek_next(i) /\ UNCHANGED <<invoked, glueVars>>

FuseIterAlways_next(i) == kind[i] = "Always" /\ seek_next(i) /\ UNCHANGED <<invoked, glueVars>>

FuseIterVariant_next(i) ==
    /\ kind[i] = "Variant"
    /\ LoopIteration(i, FuseIterVariant_match(Outcome(inner[i]), variant[i]))
    /\ UNCHANGED <<invoked, glueVars>>

\* (mutant) the closure is evaluated on whatever the stepper returned
FuseIterClosure_args_EveryOutcome(o) == <<o.err>>

\* the arguments of the (self.cond)(e) calls one iteration makes on outcome o
FuseIterClosure_args(o) == IF o.tag = "Failed" THEN <<o.err>> ELSE <<>>

\* the record of the closure's calls, kept while the poll counter is exact
Invoke(l, args, n) == IF n < MaxPolls THEN l \o args ELSE l

FuseIterClosure_next(i) ==
    /\ kind[i] = "Closure"
    /\ LoopIteration(i, FuseIterClosure_match(Outcome(inner[i]), cond[i]))
    /\ invoked' = [invoked EXCEPT ![i] = Invoke(@, FuseIterClosure_args(Outcome(inner[i])), polls[i])]
    /\ UNCHANGED glueVars

Step(i) ==
    \/ Seek(i)
    \/ FuseIterAlways_next(i)
    \/ FuseIterVariant_next(i)
    \/ FuseIterClosure_next(i)

Next == \E i \in Inst : Call(i) \/ Step(i)

Spec == Init /\ [][Next]_vars

\* Sequential code: a loop that has been entered keeps iterating, and the
\* consumer (a for loop) keeps asking for the next element.
FairSpec == InitSingle /\ [][Next]_vars /\ \A i \in Inst : WF_vars(Call(i)) /\ WF_vars(Step(i))

\* ---- some.rs ----
\* (mutant) on None the macro yields the default value instead of returning it
take_NoReturn(opt) ==
    IF opt.tag = "Some"
    THEN [yields |-> TRUE, val |-> opt.val]
    ELSE [yields |-> TRUE, val |-> 0]

\* take!(opt): Some(t) => t, None => return Default::default()
take(opt) ==
    IF opt.tag = "Some"
    THEN [yields |-> TRUE, val |-> opt.val]
    ELSE [yields |-> FALSE, val |-> 0]

\* let b = take!(a);
TakeMacro ==
    /\ fn.pc = "macro"
    /\ fn' = IF take(fn.e).yields
             THEN [fn EXCEPT !.pc = "body", !.t = Some(take(fn.e).val)]
             ELSE [fn EXCEPT !.pc = "returned", !.result = DefaultValue]
    /\ UNCHANGED <<iterVars, conv>>

\* the statements after the macro, and the function's own return
FnBody ==
    /\ fn.pc = "body"
    /\ fn' = [fn EXCEPT !.pc = "returned", !.after = 1, !.result = Normal(fn.t.val)]
    /\ UNCHANGED <<iterVars, conv>>

\* the function is called again
FnCall ==
    /\ fn.pc = "returned"
    /\ \E e \in Options : fn' = Entered(e)
    /\ UNCHANGED <<iterVars, conv>>

\* T::some_from(value) of the implementation f
some_from(f, value) == f[value]

\* (mutant) some_into gives up on every value but the first
some_into_OnlyZero(f, u) == IF u = 0 THEN some_from(f, u) ELSE None

\* impl<U, T: SomeFrom<U>> SomeInto<T> for U
some_into(f, u) == some_from(f, u)

\* u.some_into()
SomeIntoCall ==
    /\ \E u \in 0..MaxU :
           conv' = [conv EXCEPT !.u = u, !.out = some_into(conv.impl, u), !.calls = 1]
    /\ UNCHANGED <<iterVars, fn>>

GlueInit ==
    /\ kind = [i \in Inst |-> "Absent"]
    /\ variant = [i \in Inst |-> "-"]
    /\ cond = [i \in Inst |-> NoCond]
    /\ inner = [i \in Inst |-> Stepper(<<>>, Empty)]
    /\ pc = [i \in Inst |-> "idle"]
    /\ last = [i \in Inst |-> NoOutcome]
    /\ ret = [i \in Inst |-> NoRet]
    /\ polls = [i \in Inst |-> 0]
    /\ log = [i \in Inst |-> <<>>]
    /\ invoked = [i \in Inst |-> <<>>]
    /\ \E e \in Options : fn = Entered(e)
    /\ \E f \in Impls : conv = ConvIdle(f)

GlueNext == TakeMacro \/ FnBody \/ FnCall \/ SomeIntoCall

GlueSpec == GlueInit /\ [][GlueNext]_vars

\* ---- what the claims speak about ----
\* the entry the n-th some_next() call of instance i returns (n >= 1)
StreamAt(i, n) == IF n <= Len(inner[i].script) THEN inner[i].script[n] ELSE inner[i].tail

\* the payloads of the Produced entries among the first n entries, in order
RECURSIVE ProducedUpTo(_, _)
ProducedUpTo(i, n) ==
    IF n = 0 THEN <<>>
    ELSE IF IsProduced(StreamAt(i, n))
         THEN Append(ProducedUpTo(i, n - 1), StreamAt(i, n).val)
         ELSE ProducedUpTo(i, n - 1)

\* the values of the first k results of the log (used where none of them is None)
Vals(l, k) == [j \in 1..k |-> l[j].ret.val]
Rets(l, k) == [j \in 1..k |-> l[j].ret]

\* the k-th recorded call is at or before the first end-of-sequence, and the
\* poll counter was exact when it returned
UpToFirstEnd(l, k) == l[k].at < MaxPolls /\ \A j \in 1..(k - 1) : l[j].ret # None

\* With Terminal(o) the entries that are to end the sequence: the k-th call
\* returned end-of-sequence exactly on the first terminal entry, having emitted
\* all Produced payloads before it, or it emitted a value and everything
\* emitted so far is all Produced payloads so far with no terminal entry passed.
EmitsUntil(i, Terminal(_)) ==
    \A k \in 1..Len(log[i]) :
        UpToFirstEnd(log[i], k) =>
            LET n == log[i][k].at IN
            IF log[i][k].ret = None
            THEN /\ Terminal(StreamAt(i, n))
                 /\ \A m \in 1..(n - 1) : ~Terminal(StreamAt(i, m))
                 /\ Vals(log[i], k - 1) = ProducedUpTo(i, n - 1)
            ELSE /\ \A m \in 1..n : ~Terminal(StreamAt(i, m))
                 /\ Vals(log[i], k) = ProducedUpTo(i, n)

\* C1: Fuse-Always emits exactly the Produced payloads before the first Failed
\* entry, in order, and ends at (and excludes) that Failed; Empty entries change
\* nothing. Script [Produced(1), Empty, Produced(2), Failed(X), Produced(3)]
\* emits 1, 2 and then ends.
C1_FuseAlways ==
    \A i \in Inst :
        kind[i] = "Always" =>
            /\ EmitsUntil(i, IsFailed)
            /\ (inner[i].script = ScenarioA /\ Len(log[i]) >= 3) =>
                   Rets(log[i], 3) = <<Some(1), Some(2), None>>

C1_Witness ==
    \E i \in Inst :
        /\ kind[i] = "Always"
        /\ inner[i].script = ScenarioA
        /\ Len(log[i]) = 3
        /\ log[i][3] = [ret |-> None, at |-> 4]

IsSentinel(i, o) == IsFailed(o) /\ o.err = variant[i]

\* C2: Fuse-On-Sentinel with sentinel S emits exactly the Produced payloads
\* before the first Failed(S); Failed(e) with e # S and Empty are skipped.
\* On the script of C1, sentinel X emits 1, 2 and ends at Failed(X); sentinel Y
\* absorbs Failed(X) and emits 1, 2, 3 without ending inside the script.
C2_FuseOnSentinel ==
    \A i \in Inst :
        kind[i] = "Variant" =>
            /\ EmitsUntil(i, LAMBDA o : IsSentinel(i, o))
            /\ (inner[i].script = ScenarioA /\ Len(log[i]) >= 3) =>
                   IF variant[i] = "X"
                   THEN /\ Rets(log[i], 3) = <<Some(1), Some(2), None>>
                        /\ log[i][3].at = 4
                   ELSE /\ Rets(log[i], 3) = <<Some(1), Some(2), Some(3)>>
                        /\ log[i][3].at = 5

C2_Witness ==
    \E i \in Inst :
        /\ kind[i] = "Variant"
        /\ variant[i] = "Y"
        /\ inner[i].script = ScenarioA
        /\ inner[i].tail = Failed("Y")
        /\ Len(log[i]) = 4
        /\ log[i][3] = [ret |-> Some(3), at |-> 5]
        /\ log[i][4] = [ret |-> None, at |-> 6]

StopsWhile(i, o) == IsFailed(o) /\ cond[i][o.err] = FALSE

C4_CutOffWhenTrue ==
    \A i \in Inst :
        (kind[i] = "Closure" /\ IsFailed(last[i])) =>
            ((pc[i] = "idle" /\ ret[i] = None) <=> cond[i][last[i].err] = TRUE)

IsAdapter(i) == kind[i] \in {"Always", "Variant", "Closure"}

\* how many of the first k recorded calls emitted a value
RECURSIVE Emitted(_, _)
Emitted(l, k) ==
    IF k = 0 THEN 0
    ELSE Emitted(l, k - 1) + (IF l[k].ret.tag = "Some" THEN 1 ELSE 0)

\* the 1-based position of the entry that is the n-th Produced of the stream
NthProduced(i, n) ==
    CHOOSE p \in 0..MaxPolls :
        \/ p = 0 /\ \A q \in 1..MaxPolls : Len(ProducedUpTo(i, q)) < n
        \/ p > 0 /\ IsProduced(StreamAt(i, p)) /\ Len(ProducedUpTo(i, p)) = n

\* C5: no buffering or lookahead: when the n-th value is emitted the number of
\* some_next() calls made equals the position of the n-th Produced entry, the
\* value is that entry's payload, and the stepper stands right behind it; every
\* poll, absorbed or not, moves the stepper by exactly one entry.
C5_NoLookahead ==
    \A i \in Inst :
        IsAdapter(i) =>
            /\ polls[i] < MaxPolls => inner[i].cur = Min(polls[i], Len(inner[i].script))
            /\ \A k \in 1..Len(log[i]) :
                   (log[i][k].ret.tag = "Some" /\ log[i][k].at < MaxPolls) =>
                       /\ log[i][k].at = NthProduced(i, Emitted(log[i], k))
                       /\ StreamAt(i, log[i][k].at) = Produced(log[i][k].ret.val)
            /\ (pc[i] = "idle" /\ ret[i].tag = "Some" /\ Len(log[i]) < MaxCalls) =>
                   polls[i] = log[i][Len(log[i])].at

C5_Witness ==
    \E i \in Inst :
        /\ kind[i] = "Variant"
        /\ IsFailed(StreamAt(i, 1))
        /\ StreamAt(i, 2) = Empty
        /\ pc[i] = "idle"
        /\ Len(log[i]) = 2
        /\ log[i][1] = [ret |-> Some(1), at |-> 3]
        /\ log[i][2] = [ret |-> Some(1), at |-> 4]

SamePrefix(l1, l2) == \A k \in 1..Min(Len(l1), Len(l2)) : l1[k] = l2[k]

C7_SeekIsFuseAlways ==
    /\ \A i, j \in Inst :
           (/\ kind[i] = "Seek"
            /\ kind[j] = "Always"
            /\ inner[i].script = inner[j].script
            /\ inner[i].tail = inner[j].tail) =>
               /\ SamePrefix(log[i], log[j])
               /\ (pc[i] = "idle" /\ pc[j] = "idle" /\ Len(log[i]) = Len(log[j])
                   /\ Len(log[i]) < MaxCalls) => (inner[i] = inner[j] /\ ret[i] = ret[j])
    /\ \A i \in Inst :
           kind[i] \in {"Seek", "Always"} =>
               /\ \A k \in 1..Len(log[i]) :
                      log[i][k].at < MaxPolls =>
                          LET from == IF k = 1 THEN 0 ELSE log[i][k - 1].at
                              o == StreamAt(i, log[i][k].at)
                          IN /\ from < log[i][k].at
                             /\ \A m \in (from + 1)..(log[i][k].at - 1) : StreamAt(i, m) = Empty
                             /\ IF log[i][k].ret = None
                                THEN IsFailed(o)
                                ELSE o = Produced(log[i][k].ret.val)
               /\ (pc[i] = "idle" /\ ret[i] = None /\ polls[i] < MaxPolls) =>
                      /\ IsFailed(StreamAt(i, polls[i]))
                      /\ inner[i].cur = Min(polls[i], Len(inner[i].script))
                      /\ Outcome(inner[i]) = StreamAt(i, polls[i] + 1)

C7_Witness ==
    /\ kind[1] = "Seek"
    /\ kind[2] = "Always"
    /\ inner[1].script = ScenarioA
    /\ \A i \in Inst :
           /\ pc[i] = "idle"
           /\ ret[i] = None
           /\ Len(log[i]) = 3
           /\ polls[i] = 4
           /\ Outcome(inner[i]) = Produced(3)

Remaining(i) ==
    {inner[i].script[m] : m \in (inner[i].cur + 1)..Len(inner[i].script)} \cup {inner[i].tail}

\* an entry on which a next() call of instance i returns
Returning(i, o) ==
    \/ IsProduced(o)
    \/ kind[i] = "Variant" /\ IsSentinel(i, o)
    \/ kind[i] = "Closure" /\ StopsWhile(i, o)

InLoop(i) == kind[i] \in {"Variant", "Closure"} /\ pc[i] = "loop"

CanReturn(i) == \E o \in Remaining(i) : Returning(i, o)

C10_ForLoopTerminates ==
    \A i \in Inst :
        (kind[i] = "Always" /\ inner[i].script = <<>> /\ inner[i].tail = Produced(1)) =>
            <>(pc[i] = "idle" /\ ret[i] = None)

\* C11: take!(e) yields t when e is Some(t) and the function goes on with the
\* statements after it; when e is None the function returns the default value
\* of its return type at once and runs none of the statements after the macro.
C11_TakeYieldsOrReturnsDefault ==
    /\ fn.pc = "body" =>
           (fn.e.tag = "Some" /\ fn.t = fn.e /\ fn.after = 0 /\ fn.result = Pending)
    /\ fn.pc = "returned" =>
           IF fn.e = None
           THEN fn.result = DefaultValue /\ fn.after = 0 /\ fn.t = NoRet
           ELSE fn.result = Normal(fn.e.val) /\ fn.after = 1 /\ fn.t = fn.e

C11_Witness == fn.pc = "returned" /\ fn.e = None /\ fn.result = DefaultValue /\ conv.calls = 1

\* C18: SomeInto mirrors SomeFrom: u.some_into() returns exactly
\* T::some_from(u), Some(t) or None, and nothing else.
C18_SomeIntoMirrorsSomeFrom ==
    conv.calls = 1 =>
        /\ conv.out = some_from(conv.impl, conv.u)
        /\ conv.out \in Options

C18_Witness ==
    /\ conv.calls = 1
    /\ conv.u = 1
    /\ conv.out = Some(2)
    /\ conv.impl[0] = None

\* C12: the adapters keep no "ended" state: after next() has returned
\* end-of-sequence, a further call is taken like any other, polls the stepper
\* from the entry after the terminal Failed and can emit a later Produced:
\* script [Produced(1), Empty, Produced(2), Failed(X), Produced(3)] under
\* Fuse-Always returns 1, 2, end-of-sequence and then 3.
C12_NoEndedState ==
    \A i \in Inst :
        IsAdapter(i) =>
            /\ pc[i] = "idle" => ENABLED Call(i)
            /\ (pc[i] = "loop" /\ ret[i] = None /\ last[i] = NoOutcome /\ polls[i] < MaxPolls) =>
                   /\ IsFailed(StreamAt(i, polls[i]))
                   /\ Outcome(inner[i]) = StreamAt(i, polls[i] + 1)
            /\ \A k \in 1..(Len(log[i]) - 1) :
                   (log[i][k].ret = None /\ log[i][k + 1].at < MaxPolls) =>
                       /\ log[i][k + 1].at > log[i][k].at
                       /\ log[i][k + 1].ret.tag = "Some" =>
                              StreamAt(i, log[i][k + 1].at) = Produced(log[i][k + 1].ret.val)
            /\ (kind[i] = "Always" /\ inner[i].script = ScenarioA /\ Len(log[i]) >= 4) =>
                   Rets(log[i], 4) = <<Some(1), Some(2), None, Some(3)>>

C12_Witness ==
    \E i \in Inst :
        /\ kind[i] = "Always"
        /\ inner[i].script = ScenarioA
        /\ pc[i] = "idle"
        /\ Len(log[i]) = 4
        /\ log[i][3] = [ret |-> None, at |-> 4]
        /\ log[i][4] = [ret |-> Some(3), at |-> 5]

\* C13: order and identity of values: over any sequence of next() calls, also
\* after an end-of-sequence, every script entry is consumed at most once and
\* in script order, and each emitted value is the unchanged payload of a
\* Produced entry that lies behind the entry of the previous result: nothing
\* is emitted twice, reordered or invented.
C13_OrderAndIdentity ==
    /\ [](\A i \in Inst :
             IsAdapter(i) =>
                 \A k \in 1..Len(log[i]) :
                     log[i][k].at < MaxPolls =>
                         /\ log[i][k].at >= 1
                         /\ k > 1 => log[i][k - 1].at < log[i][k].at
                         /\ log[i][k].ret.tag = "Some" =>
                                StreamAt(i, log[i][k].at) = Produced(log[i][k].ret.val))
    /\ [][\A i \in Inst :
             /\ inner'[i].script = inner[i].script
             /\ inner'[i].tail = inner[i].tail
             /\ inner'[i].cur \in {inner[i].cur, inner[i].cur + 1}
             /\ inner'[i].cur = inner[i].cur + 1 => last'[i] = inner[i].script[inner[i].cur + 1]
             /\ (pc[i] = "loop" /\ pc'[i] = "idle" /\ ret'[i].tag = "Some") =>
                    (last'[i] = Produced(ret'[i].val) /\ last'[i] = Outcome(inner[i]))]_vars

C13_Witness ==
    \E i \in Inst :
        /\ kind[i] = "Variant"
        /\ variant[i] = "X"
        /\ inner[i].script = ScenarioA
        /\ inner[i].cur = 5
        /\ Len(log[i]) = 4
        /\ Rets(log[i], 4) = <<Some(1), Some(2), None, Some(3)>>

\* the payloads of the Failed entries among the first n entries, in order
RECURSIVE FailedUpTo(_, _)
FailedUpTo(i, n) ==
    IF n = 0 THEN <<>>
    ELSE IF IsFailed(StreamAt(i, n))
         THEN Append(FailedUpTo(i, n - 1), StreamAt(i, n).err)
         ELSE FailedUpTo(i, n - 1)

\* C14: Fuse-While calls the continuation predicate exactly once for each
\* Failed outcome it takes from the stepper, with that outcome's payload, and
\* never for a Produced or Empty outcome: the calls made are, in order, the
\* payloads of the Failed outcomes consumed.
C14_PredicateOncePerFailed ==
    \A i \in Inst :
        /\ (kind[i] = "Closure" /\ polls[i] < MaxPolls) =>
               /\ invoked[i] = FailedUpTo(i, polls[i])
               /\ IsFailed(last[i]) =>
                      (invoked[i] # <<>> /\ invoked[i][Len(invoked[i])] = last[i].err)
        /\ kind[i] # "Closure" => invoked[i] = <<>>

C14_Witness ==
    \E i \in Inst :
        /\ kind[i] = "Closure"
        /\ inner[i].script = <<Failed("X"), Empty>>
        /\ inner[i].tail = Failed("Y")
        /\ cond[i] = NotEq("Y")
        /\ pc[i] = "idle"
        /\ polls[i] = 3
        /\ invoked[i] = <<"X", "Y">>

\* C15: frame: a next() call leaves the sentinel of Fuse-On-Sentinel and the
\* predicate of Fuse-While unchanged; of an adapter's own state only the
\* position of the wrapped stepper changes, so the sentinel (and the predicate)
\* is in every reachable state the one given at construction.
C15_Frame ==
    /\ [][\A i \in Inst :
             /\ variant'[i] = variant[i]
             /\ cond'[i] = cond[i]
             /\ kind'[i] = kind[i]
             /\ inner'[i].script = inner[i].script
             /\ inner'[i].tail = inner[i].tail]_vars
    /\ \A i \in Inst : \A S \in Errors :
           (kind[i] = "Variant" /\ variant[i] = S) => [](variant[i] = S)
    /\ \A i \in Inst : \A f \in Conds :
           (kind[i] = "Closure" /\ cond[i] = f) => [](cond[i] = f)

C15_Witness ==
    \E i \in Inst :
        /\ kind[i] = "Variant"
        /\ variant[i] = "X"
        /\ inner[i].script = <<Failed("Y"), Failed("X")>>
        /\ pc[i] = "idle"
        /\ ret[i] = None
        /\ polls[i] = 2

\* C16: Fuse-Always is opaque to the error payload: over two scripts with the
\* same tags and Produced payloads at every position, differing only in the
\* payloads of their Failed entries, every next() call returns the same result
\* after the same number of some_next() calls.
C16_OpaqueToPayload ==
    \A i, j \in Inst :
        (/\ kind[i] = "Always"
         /\ kind[j] = "Always"
         /\ SameShape(inner[i].script, inner[j].script)
         /\ SameTag(inner[i].tail, inner[j].tail)) =>
            /\ SamePrefix(log[i], log[j])
            /\ (pc[i] = "idle" /\ pc[j] = "idle" /\ Len(log[i]) = Len(log[j])
                /\ Len(log[i]) < MaxCalls) =>
                   (ret[i] = ret[j] /\ polls[i] = polls[j] /\ inner[i].cur = inner[j].cur)

C16_Witness ==
    /\ kind[1] = "Always"
    /\ kind[2] = "Always"
    /\ inner[1].script = ScenarioA
    /\ inner[2].script = Remap(ScenarioA, [e \in Errors |-> "Y"])
    /\ inner[1].tail = Failed("Y")
    /\ inner[2].tail = Failed("X")
    /\ Len(log[1]) = 4 /\ pc[1] = "idle"
    /\ Len(log[2]) = 4 /\ pc[2] = "idle"
    /\ log[1][3] = [ret |-> None, at |-> 4]
    /\ log[2][4] = [ret |-> Some(3), at |-> 5]

\* the stepper of instance i is an Iterator<Item = Result<T, E>>: Some(Ok) and
\* Some(Err) items, then None on every call
IsIterator(i) ==
    /\ inner[i].tail = Empty
    /\ \A k \in 1..Len(inner[i].script) : inner[i].script[k] # Empty

Exhausted(i) == inner[i].cur = Len(inner[i].script)

NoErr(i) == \A k \in 1..Len(inner[i].script) : IsProduced(inner[i].script[k])

\* C17: over an ordinary finite Iterator of Results, matched as seek_next
\* matches it, the iterator's own end (None) is a transient Empty and not a
\* terminal outcome; fuse_err() over a finite iterator without an Err never
\* returns end-of-sequence: the next() call made after the last Ok item polls
\* the exhausted iterator forever.
C17_IteratorEndIsTransient ==
    /\ [][\A i \in Inst :
             (kind[i] = "Always" /\ IsIterator(i) /\ pc[i] = "loop" /\ Exhausted(i)) =>
                 (pc'[i] = "loop" /\ ret'[i] = ret[i])]_vars
    /\ \A i \in Inst :
           (kind[i] = "Always" /\ IsIterator(i) /\ NoErr(i)) =>
               /\ [](ret[i] # None)
               /\ <>[](pc[i] = "loop" /\ Exhausted(i))

C17_Witness ==
    \E i \in Inst :
        /\ kind[i] = "Always"
        /\ inner[i].script = <<Produced(1), Produced(2)>>
        /\ inner[i].tail = Empty
        /\ pc[i] = "loop"
        /\ polls[i] = MaxPolls
        /\ log[i] = <<[ret |-> Some(1), at |-> 1], [ret |-> Some(2), at |-> 2]>>

TypeOK ==
    /\ kind \in [Inst -> {"Seek", "Always", "Variant", "Closure", "Absent"}]
    /\ \A i \in Inst :
        /\ inner[i].cur \in 0..Len(inner[i].script)
        /\ pc[i] \in {"idle", "loop"}
        /\ polls[i] \in 0..MaxPolls
        /\ Len(log[i]) <= MaxCalls
====
